---- MODULE Spec2Model ----
(***************************************************************************)
(* Ticket ordering against a finite inventory: OrderService.CreateOrder    *)
(* and its repository calls, run as concurrent database transactions, next *)
(* to the event-management operations that write the same events row.      *)
(*                                                                         *)
(* The store is PostgreSQL as opened by database.NewConnection with        *)
(* gorm's defaults: every transaction runs READ COMMITTED, a plain SELECT  *)
(* takes no lock and sees the last committed row, an UPDATE takes the row  *)
(* lock until its transaction ends, and a transaction's writes become      *)
(* visible to others together, at its commit.                              *)
(***************************************************************************)
EXTENDS Integers, FiniteSets, Sequences, TLC

\* ---- bounds ----
\* number of CreateOrder calls
MaxCalls == 2
\* largest total_tickets of an event, and the capacity of its venue
MaxTickets == 3

Calls == 1..MaxCalls
\* the event-management requests: the one that runs next to the calls, and a
\* second one that runs next to it where two are in flight together
Mgmt == {"m1", "m2"}
MgmtAlone == {"m1"}
\* event ids requests may name; those of CreatedEvents have a row at the start
EventIDs == {"e1", "e2"}
CreatedEvents == {"e1"}
Users == {"u1", "u2"}
Organizer == "u1"
\* the buyer each call is made by
BuyerOf(p) == IF p % 2 = 1 THEN "u2" ELSE "u1"
Quantities == {-1, 0, 1, 2}
Prices == {25, 40}
\* the request on an order that runs next to the calls
OrderMgmt == {"o1"}
\* order ids requests may name: those the calls give their orders, and one no order has
OrderIDs == Calls \cup {0}
\* statuses requests may name: the three of an order, and one that is none of them
OrderStatuses == {"PENDING", "COMPLETED", "FAILED", "REFUNDED"}
\* capacity of the venue every request names
VenueCapacity == MaxTickets

\* ---- program constants ----
StatusActive == "ACTIVE"
StatusCancelled == "CANCELLED"
StatusCompleted == "COMPLETED"
StatusPending == "PENDING"
StatusFailed == "FAILED"

InvalidQuantityErrorCode == "INVALID_QUANTITY"
EventNotFoundErrorCode == "EVENT_NOT_FOUND"
EventNotActiveErrorCode == "EVENT_NOT_ACTIVE"
InsufficientTicketsErrorCode == "INSUFFICIENT_TICKETS"
OrderCreationErrorCode == "ORDER_CREATION_ERROR"
ValidationErrorCode == "VALIDATION_ERROR"
OrderNotFoundErrorCode == "ORDER_NOT_FOUND"
\* an error of the database driver returned as it is, in no OrderError
StorageError == "STORAGE_ERROR"
OK == "OK"

ErrEventNotFound == "EVENT_NOT_FOUND"
ErrEventUpdateFailed == "EVENT_UPDATE_FAILED"
ErrVenueNotFound == "VENUE_NOT_FOUND"
ErrEventDateInPast == "EVENT_DATE_INVALID"
ErrTicketsExceedCapacity == "TICKETS_EXCEED_CAPACITY"
ErrUnauthorizedAccess == "UNAUTHORIZED_ACCESS"
ErrEventAlreadyCancelled == "EVENT_ALREADY_CANCELLED"
ErrCannotCancelCompleted == "CANNOT_CANCEL_COMPLETED"
ErrCannotUpdateCancelled == "CANNOT_UPDATE_CANCELLED"
ErrCannotUpdateCompleted == "CANNOT_UPDATE_COMPLETED"
ErrInvalidTicketReduction == "INVALID_TICKET_REDUCTION"
ErrCannotDeleteWithTickets == "CANNOT_DELETE_WITH_TICKETS"
ErrEventDeletionFailed == "EVENT_DELETION_FAILED"
\* the handler's 403 answer
Forbidden == "forbidden"

VARIABLES
    events,     \* committed events table: event id -> row (a missing id has no row)
    orders,     \* committed orders table: set of rows
    rowLock,    \* events row lock: event id -> the call whose transaction holds it, 0 if free
    pc,         \* position of each CreateOrder call
    req,        \* arguments of each CreateOrder call
    eventInfo,  \* the EventInfo each call read in its transaction
    txOrder,    \* order rows inserted by the call's open transaction
    txTickets,  \* available_tickets written by the call's open transaction (-1: none)
    result,     \* what each call returned
    applied,    \* history: calls whose write to events has been committed
    mpc,        \* position of each event-management request
    mreq,       \* its kind and the event it names
    mEvent,     \* the Event struct the request is about to save
    mresult,    \* what the request returned
    cache,      \* the event cache: event id -> the Event it holds (NoEvent: none)
    opc,        \* position of each request on an order
    oreq,       \* its kind and the order id it names
    oOrder,     \* the Order struct the request read
    oresult,    \* what the request returned
    rresult,    \* what the last read of orders answered
    http        \* the HTTP response to each CreateOrder call

orderVars == <<pc, req, eventInfo, txOrder, txTickets, result, applied>>
\* what no step of CreateOrder touches: the event-management request, the
\* cache and the request on an order
cacheVars == <<cache>>
statusVars == <<opc, oreq, oOrder, oresult>>
\* answers given to clients: they are written once and read by no operation
answerVars == <<rresult, http>>
mgmtVars == <<mpc, mreq, mEvent, mresult, cacheVars, statusVars, answerVars>>
vars == <<events, orders, rowLock, orderVars, mgmtVars>>

NoReq == [user |-> "none", event |-> "none", quantity |-> 0]
NoEvent == [status |-> "NONE", total |-> 0, available |-> 0, price |-> 0, organizer |-> "none"]
NoOrderReq == [kind |-> "none", id |-> 0, status |-> "NONE"]
NoOrder == [id |-> 0, user_id |-> "none", event_id |-> "none", quantity |-> 0,
            total_amount |-> 0, status |-> "NONE", created_at |-> 0]
NoRead == [op |-> "none", id |-> 0, user |-> "none", event |-> "none",
           code |-> "NONE", rows |-> {}]
NoResponse == [status |-> 0, error |-> "NONE", body |-> NoOrder]
NoResult == [code |-> "NONE", requested |-> 0, available |-> 0, status |-> "NONE"]

\* an events row with nothing sold, as CreateEvent stores it
NewEvent(status, total, price) ==
    [status |-> status, total |-> total, available |-> total,
     price |-> price, organizer |-> Organizer]

Exists(e) == e \in DOMAIN events

\* the events table without chk_tickets_consistency
EventChecksNoConsistency(row) ==
    /\ row.price >= 0
    /\ row.available >= 0
    /\ row.total > 0
    /\ row.status \in {StatusActive, StatusCancelled, StatusCompleted}

\* CHECK constraints of the events table
EventChecks(row) ==
    /\ row.price >= 0
    /\ row.available >= 0
    /\ row.total > 0
    /\ row.status \in {StatusActive, StatusCancelled, StatusCompleted}
    /\ row.available <= row.total

\* CHECK constraints and foreign key of the orders table
OrderChecks(o) ==
    /\ o.quantity > 0
    /\ o.total_amount >= 0
    /\ o.status \in {StatusPending, StatusCompleted, StatusFailed}
    /\ Exists(o.event_id)

Err(code) == [code |-> code, requested |-> 0, available |-> 0, status |-> "NONE"]
NewInvalidQuantityError(q) == Err(InvalidQuantityErrorCode)
NewEventNotFoundError(e) == Err(EventNotFoundErrorCode)
NewEventNotActiveError(e, status) ==
    [code |-> EventNotActiveErrorCode, requested |-> 0, available |-> 0, status |-> status]
NewInsufficientTicketsError(requested, available) ==
    [code |-> InsufficientTicketsErrorCode, requested |-> requested,
     available |-> available, status |-> "NONE"]
NewOrderCreationError == Err(OrderCreationErrorCode)

\* no order, no lock held, no request started, nothing cached
InitRequests ==
    /\ orders = {}
    /\ rowLock = [e \in EventIDs |-> 0]
    /\ pc = [p \in Calls |-> "idle"]
    /\ req = [p \in Calls |-> NoReq]
    /\ eventInfo = [p \in Calls |-> NoEvent]
    /\ txOrder = [p \in Calls |-> {}]
    /\ txTickets = [p \in Calls |-> -1]
    /\ result = [p \in Calls |-> NoResult]
    /\ applied = {}
    /\ mpc = [m \in Mgmt |-> "idle"]
    /\ mreq = [m \in Mgmt |-> [kind |-> "none", event |-> "none"]]
    /\ mEvent = [m \in Mgmt |-> NoEvent]
    /\ mresult = [m \in Mgmt |-> "NONE"]
    /\ cache = [e \in EventIDs |-> NoEvent]
    /\ opc = [o \in OrderMgmt |-> "idle"]
    /\ oreq = [o \in OrderMgmt |-> NoOrderReq]
    /\ oOrder = [o \in OrderMgmt |-> NoOrder]
    /\ oresult = [o \in OrderMgmt |-> "NONE"]
    /\ rresult = NoRead
    /\ http = [p \in Calls |-> NoResponse]

\* one event, nothing sold yet; it is ACTIVE, or was set COMPLETED in the table
Init ==
    /\ events \in [CreatedEvents ->
                        {NewEvent(s, t, p) : s \in {StatusActive, StatusCompleted},
                                            t \in 1..MaxTickets, p \in Prices}]
    /\ InitRequests

\* an error return that leaves the transaction's row lock held
RollbackKeepsLock(p, err) ==
    /\ pc' = [pc EXCEPT ![p] = "done"]
    /\ result' = [result EXCEPT ![p] = err]
    /\ txOrder' = [txOrder EXCEPT ![p] = {}]
    /\ txTickets' = [txTickets EXCEPT ![p] = -1]
    /\ eventInfo' = [eventInfo EXCEPT ![p] = NoEvent]
    /\ req' = [req EXCEPT ![p] = NoReq]
    /\ UNCHANGED <<events, orders, rowLock, applied, mgmtVars>>

\* an error return that leaves the transaction's insert committed
RollbackKeepsInsert(p, err) ==
    /\ pc' = [pc EXCEPT ![p] = "done"]
    /\ result' = [result EXCEPT ![p] = err]
    /\ orders' = orders \cup txOrder[p]
    /\ txOrder' = [txOrder EXCEPT ![p] = {}]
    /\ txTickets' = [txTickets EXCEPT ![p] = -1]
    /\ rowLock' = [e \in EventIDs |-> IF rowLock[e] = p THEN 0 ELSE rowLock[e]]
    /\ eventInfo' = [eventInfo EXCEPT ![p] = NoEvent]
    /\ req' = [req EXCEPT ![p] = NoReq]
    /\ UNCHANGED <<events, applied, mgmtVars>>

\* one ACTIVE event, nothing sold yet
InitActive ==
    /\ events \in [CreatedEvents ->
                        {NewEvent(StatusActive, t, 25) : t \in 1..MaxTickets}]
    /\ InitRequests

\* two ACTIVE events, nothing sold yet
InitTwoEvents ==
    /\ events \in [EventIDs ->
                        {NewEvent(StatusActive, t, 25) : t \in 1..MaxTickets}]
    /\ InitRequests

\* one event, nothing sold yet; it is ACTIVE, was cancelled, or was set
\* COMPLETED in the table
InitAnyStatus ==
    /\ events \in [CreatedEvents ->
                        {NewEvent(s, t, 25) :
                            s \in {StatusActive, StatusCancelled, StatusCompleted},
                            t \in 1..MaxTickets}]
    /\ InitRequests

\* gorm's Transaction rolls back when its function returns an error: the
\* transaction's writes are dropped and its row lock is released.
Rollback(p, err) ==
    /\ pc' = [pc EXCEPT ![p] = "done"]
    /\ result' = [result EXCEPT ![p] = err]
    /\ txOrder' = [txOrder EXCEPT ![p] = {}]
    /\ txTickets' = [txTickets EXCEPT ![p] = -1]
    /\ rowLock' = [e \in EventIDs |-> IF rowLock[e] = p THEN 0 ELSE rowLock[e]]
    /\ eventInfo' = [eventInfo EXCEPT ![p] = NoEvent]
    /\ req' = [req EXCEPT ![p] = NoReq]
    /\ UNCHANGED <<events, orders, applied, mgmtVars>>

\* the event taken from the cache when the cache holds it
GetEventWithTxFromCache(p, e, q, dbErr) ==
    LET row == IF cache[e] # NoEvent THEN cache[e] ELSE events[e]
    IN IF dbErr THEN Rollback(p, Err(StorageError))
       ELSE IF ~Exists(e)
       THEN Rollback(p, NewEventNotFoundError(e))
       ELSE IF row.status # StatusActive
       THEN Rollback(p, NewEventNotActiveError(e, row.status))
       ELSE IF row.available < q
       THEN Rollback(p, NewInsufficientTicketsError(q, row.available))
       ELSE /\ eventInfo' = [eventInfo EXCEPT ![p] = row]
            /\ req' = [req EXCEPT ![p] = [user |-> BuyerOf(p), event |-> e, quantity |-> q]]
            /\ pc' = [pc EXCEPT ![p] = "validated"]
            /\ UNCHANGED <<events, orders, rowLock, txOrder, txTickets, result,
                           applied, mgmtVars>>

\* a missing row reported as the driver's error, not as EventNotFound
GetEventWithTxRawNotFound(p, e, q, dbErr) ==
    IF dbErr \/ ~Exists(e) THEN Rollback(p, Err(StorageError))
    ELSE IF events[e].status # StatusActive
    THEN Rollback(p, NewEventNotActiveError(e, events[e].status))
    ELSE IF events[e].available < q
    THEN Rollback(p, NewInsufficientTicketsError(q, events[e].available))
    ELSE /\ eventInfo' = [eventInfo EXCEPT ![p] = events[e]]
         /\ req' = [req EXCEPT ![p] = [user |-> BuyerOf(p), event |-> e, quantity |-> q]]
         /\ pc' = [pc EXCEPT ![p] = "validated"]
         /\ UNCHANGED <<events, orders, rowLock, txOrder, txTickets, result,
                        applied, mgmtVars>>

\* the availability test written with <= in place of <
GetEventWithTxOffByOne(p, e, q, dbErr) ==
    IF dbErr THEN Rollback(p, Err(StorageError))
    ELSE IF ~Exists(e)
    THEN Rollback(p, NewEventNotFoundError(e))
    ELSE IF events[e].status # StatusActive
    THEN Rollback(p, NewEventNotActiveError(e, events[e].status))
    ELSE IF events[e].available <= q
    THEN Rollback(p, NewInsufficientTicketsError(q, events[e].available))
    ELSE /\ eventInfo' = [eventInfo EXCEPT ![p] = events[e]]
         /\ req' = [req EXCEPT ![p] = [user |-> BuyerOf(p), event |-> e, quantity |-> q]]
         /\ pc' = [pc EXCEPT ![p] = "validated"]
         /\ UNCHANGED <<events, orders, rowLock, txOrder, txTickets, result,
                        applied, mgmtVars>>

\* the availability test made before the status test
GetEventWithTxAvailabilityFirst(p, e, q, dbErr) ==
    IF dbErr THEN Rollback(p, Err(StorageError))
    ELSE IF ~Exists(e)
    THEN Rollback(p, NewEventNotFoundError(e))
    ELSE IF events[e].available < q
    THEN Rollback(p, NewInsufficientTicketsError(q, events[e].available))
    ELSE IF events[e].status # StatusActive
    THEN Rollback(p, NewEventNotActiveError(e, events[e].status))
    ELSE /\ eventInfo' = [eventInfo EXCEPT ![p] = events[e]]
         /\ req' = [req EXCEPT ![p] = [user |-> BuyerOf(p), event |-> e, quantity |-> q]]
         /\ pc' = [pc EXCEPT ![p] = "validated"]
         /\ UNCHANGED <<events, orders, rowLock, txOrder, txTickets, result,
                        applied, mgmtVars>>

\* GetEventWithTx, a plain SELECT of the committed row, and the two
\* validations CreateOrder makes on the EventInfo it returns
GetEventWithTx(p, e, q, dbErr) ==
    IF dbErr THEN Rollback(p, Err(StorageError))
    ELSE IF ~Exists(e)
    THEN Rollback(p, NewEventNotFoundError(e))
    ELSE IF events[e].status # StatusActive
    THEN Rollback(p, NewEventNotActiveError(e, events[e].status))
    ELSE IF events[e].available < q
    THEN Rollback(p, NewInsufficientTicketsError(q, events[e].available))
    ELSE /\ eventInfo' = [eventInfo EXCEPT ![p] = events[e]]
         /\ req' = [req EXCEPT ![p] = [user |-> BuyerOf(p), event |-> e, quantity |-> q]]
         /\ pc' = [pc EXCEPT ![p] = "validated"]
         /\ UNCHANGED <<events, orders, rowLock, txOrder, txTickets, result,
                        applied, mgmtVars>>

\* the quantity test written with < in place of <=
CreateOrderAllowsZero(p, e, q, dbErr) ==
    /\ pc[p] = "idle"
    /\ \A p2 \in Calls : p2 < p => pc[p2] # "idle"
    /\ IF q < 0
       THEN /\ pc' = [pc EXCEPT ![p] = "done"]
            /\ result' = [result EXCEPT ![p] = NewInvalidQuantityError(q)]
            /\ UNCHANGED <<events, orders, rowLock, req, eventInfo, txOrder, txTickets,
                           applied, mgmtVars>>
       ELSE GetEventWithTx(p, e, q, dbErr)

\* CreateOrder(userID, e, q) from its entry to the end of its first
\* statement in the transaction. A quantity <= 0 returns before any
\* transaction is opened. Calls are numbered in the order they start.
CreateOrder(p, e, q, dbErr) ==
    /\ pc[p] = "idle"
    /\ \A p2 \in Calls : p2 < p => pc[p2] # "idle"
    /\ IF q <= 0
       THEN /\ pc' = [pc EXCEPT ![p] = "done"]
            /\ result' = [result EXCEPT ![p] = NewInvalidQuantityError(q)]
            /\ UNCHANGED <<events, orders, rowLock, req, eventInfo, txOrder, txTickets,
                           applied, mgmtVars>>
       ELSE GetEventWithTx(p, e, q, dbErr)

\* the order with the price of one ticket as its amount
NewOrderUnitPrice(p) ==
    [id |-> p, user_id |-> req[p].user, event_id |-> req[p].event,
     quantity |-> req[p].quantity,
     total_amount |-> eventInfo[p].price,
     status |-> StatusPending, created_at |-> p]

\* the Order entity CreateOrder builds (the call's number stands for its uuid
\* and for the instant time.Now() returns)
NewOrder(p) ==
    [id |-> p, user_id |-> req[p].user, event_id |-> req[p].event,
     quantity |-> req[p].quantity,
     total_amount |-> eventInfo[p].price * req[p].quantity,
     status |-> StatusPending, created_at |-> p]

\* the INSERT made on the connection instead of the transaction: it is
\* committed at once
CreateOutsideTx(p, dbErr) ==
    /\ pc[p] = "validated"
    /\ IF dbErr \/ ~OrderChecks(NewOrder(p))
       THEN Rollback(p, NewOrderCreationError)
       ELSE /\ orders' = orders \cup {NewOrder(p)}
            /\ pc' = [pc EXCEPT ![p] = "inserted"]
            /\ UNCHANGED <<events, rowLock, req, eventInfo, txOrder, txTickets, result,
                           applied, mgmtVars>>

\* CreateWithTx: INSERT into orders inside the transaction
CreateWithTx(p, dbErr) ==
    /\ pc[p] = "validated"
    /\ IF dbErr \/ ~OrderChecks(NewOrder(p))
       THEN Rollback(p, NewOrderCreationError)
       ELSE /\ txOrder' = [txOrder EXCEPT ![p] = {NewOrder(p)}]
            /\ pc' = [pc EXCEPT ![p] = "inserted"]
            /\ UNCHANGED <<events, orders, rowLock, req, eventInfo, txTickets, result,
                           applied, mgmtVars>>

\* the UPDATE taking a lock on the whole events table
UpdateEventTicketsTableLock(p, dbErr) ==
    /\ pc[p] = "inserted"
    /\ LET e == req[p].event
           newAvailableTickets == eventInfo[p].available - req[p].quantity
       IN /\ \A x \in EventIDs : rowLock[x] \in {0, p}
          /\ IF dbErr \/ ~Exists(e)
             THEN Rollback(p, NewOrderCreationError)
             ELSE IF ~EventChecks([events[e] EXCEPT !.available = newAvailableTickets])
             THEN Rollback(p, NewOrderCreationError)
             ELSE /\ rowLock' = [rowLock EXCEPT ![e] = p]
                  /\ txTickets' = [txTickets EXCEPT ![p] = newAvailableTickets]
                  /\ pc' = [pc EXCEPT ![p] = "updated"]
                  /\ UNCHANGED <<events, orders, req, eventInfo, txOrder, result,
                                 applied, mgmtVars>>

\* the UPDATE made on the connection instead of the transaction: it is
\* committed at once
UpdateEventTicketsOutsideTx(p, dbErr) ==
    /\ pc[p] = "inserted"
    /\ LET e == req[p].event
           newAvailableTickets == eventInfo[p].available - req[p].quantity
       IN /\ rowLock[e] \in {0, p}
          /\ IF dbErr \/ ~Exists(e)
             THEN Rollback(p, NewOrderCreationError)
             ELSE IF ~EventChecks([events[e] EXCEPT !.available = newAvailableTickets])
             THEN Rollback(p, NewOrderCreationError)
             ELSE /\ events' = [events EXCEPT ![e].available = newAvailableTickets]
                  /\ txTickets' = [txTickets EXCEPT ![p] = newAvailableTickets]
                  /\ pc' = [pc EXCEPT ![p] = "updated"]
                  /\ UNCHANGED <<orders, rowLock, req, eventInfo, txOrder, result,
                                 applied, mgmtVars>>

\* UpdateEventTicketsWithTx: UPDATE events SET available_tickets = n WHERE
\* id = e, with n computed from the EventInfo read earlier. The statement waits
\* for the row lock, is checked against the row as committed then, and keeps
\* the lock until the transaction ends.
UpdateEventTicketsWithTx(p, dbErr) ==
    /\ pc[p] = "inserted"
    /\ LET e == req[p].event
           newAvailableTickets == eventInfo[p].available - req[p].quantity
       IN /\ rowLock[e] \in {0, p}
          /\ IF dbErr \/ ~Exists(e)
             THEN Rollback(p, NewOrderCreationError)
             ELSE IF ~EventChecks([events[e] EXCEPT !.available = newAvailableTickets])
             THEN Rollback(p, NewOrderCreationError)
             ELSE /\ rowLock' = [rowLock EXCEPT ![e] = p]
                  /\ txTickets' = [txTickets EXCEPT ![p] = newAvailableTickets]
                  /\ pc' = [pc EXCEPT ![p] = "updated"]
                  /\ UNCHANGED <<events, orders, req, eventInfo, txOrder, result,
                                 applied, mgmtVars>>

\* the commit that ends gorm's Transaction: the transaction's writes become
\* visible together; CreateOrder returns the order
Commit(p, dbErr) ==
    /\ pc[p] = "updated"
    /\ IF dbErr
       THEN Rollback(p, Err(StorageError))
       ELSE /\ orders' = orders \cup txOrder[p]
            /\ events' = [events EXCEPT ![req[p].event].available = txTickets[p]]
            /\ applied' = applied \cup {p}
            /\ rowLock' = [e \in EventIDs |-> IF rowLock[e] = p THEN 0 ELSE rowLock[e]]
            /\ txOrder' = [txOrder EXCEPT ![p] = {}]
            /\ txTickets' = [txTickets EXCEPT ![p] = -1]
            /\ pc' = [pc EXCEPT ![p] = "done"]
            /\ result' = [result EXCEPT ![p] = Err(OK)]
            /\ eventInfo' = [eventInfo EXCEPT ![p] = NoEvent]
            /\ req' = [req EXCEPT ![p] = NoReq]
            /\ UNCHANGED mgmtVars

\* an event-management request ends with an answer and nothing written
MgmtFail(m, e, kind, code) ==
    /\ mpc' = [mpc EXCEPT ![m] = "done"]
    /\ mreq' = [mreq EXCEPT ![m] = [kind |-> kind, event |-> "none"]]
    /\ mresult' = [mresult EXCEPT ![m] = code]
    /\ mEvent' = [mEvent EXCEPT ![m] = NoEvent]
    /\ UNCHANGED <<events, orders, rowLock, orderVars, cacheVars, statusVars, answerVars>>

\* the request goes on to its next step holding the Event struct ev
MgmtGoto(m, e, kind, to, ev) ==
    /\ mpc' = [mpc EXCEPT ![m] = to]
    /\ mreq' = [mreq EXCEPT ![m] = [kind |-> kind, event |-> e]]
    /\ mEvent' = [mEvent EXCEPT ![m] = ev]
    /\ UNCHANGED <<events, orders, rowLock, orderVars, mresult, cacheVars, statusVars, answerVars>>

\* EventHandler.UpdateEvent up to its call of the service: it reads the event,
\* checks the caller and builds the Event it passes on. AvailableTickets is
\* not set there, so it is 0.
UpdateEventHandler(m) ==
    /\ mpc[m] = "idle"
    /\ \E e \in EventIDs, caller \in Users, admin \in BOOLEAN,
          total \in 1..(VenueCapacity + 1), price \in Prices :
        IF ~Exists(e)
        THEN MgmtFail(m, e, "update", ErrEventNotFound)
        ELSE IF events[e].organizer # caller /\ ~admin
        THEN MgmtFail(m, e, "update", Forbidden)
        ELSE MgmtGoto(m, e, "update", "service",
                      [status |-> events[e].status, total |-> total, available |-> 0,
                       price |-> price, organizer |-> events[e].organizer])

\* validateEventUpdate without its test of the tickets sold
validateEventUpdateNoReduction(existing, updated) ==
    IF existing.status = StatusCancelled THEN ErrCannotUpdateCancelled
    ELSE IF existing.status = StatusCompleted THEN ErrCannotUpdateCompleted
    ELSE ""

\* validateEventUpdate: the error it returns ("" for nil)
validateEventUpdate(existing, updated) ==
    IF existing.status = StatusCancelled THEN ErrCannotUpdateCancelled
    ELSE IF existing.status = StatusCompleted THEN ErrCannotUpdateCompleted
    ELSE IF updated.total < existing.total - existing.available THEN ErrInvalidTicketReduction
    ELSE ""

\* validateEventUpdate: the Event it leaves in updated
adjustAvailableTickets(existing, updated) ==
    IF updated.total # existing.total
    THEN [updated EXCEPT !.available = existing.available + (updated.total - existing.total)]
    ELSE updated

\* validateEvent: the error it returns ("" for nil)
validateEvent(ev, venueExists, dateInFuture) ==
    IF ~venueExists THEN ErrVenueNotFound
    ELSE IF ~dateInFuture THEN ErrEventDateInPast
    ELSE IF ev.total > VenueCapacity THEN ErrTicketsExceedCapacity
    ELSE ""

\* serviceImpl.UpdateEvent up to its call of eventRepo.Update
UpdateEvent(m) ==
    /\ mpc[m] = "service"
    /\ LET e == mreq[m].event
           updated == mEvent[m]
       IN \E venueExists \in BOOLEAN, dateInFuture \in BOOLEAN :
            IF ~Exists(e)
            THEN MgmtFail(m, e, "update", ErrEventNotFound)
            ELSE IF validateEventUpdate(events[e], updated) # ""
            THEN MgmtFail(m, e, "update", validateEventUpdate(events[e], updated))
            ELSE IF validateEvent(adjustAvailableTickets(events[e], updated),
                                  venueExists, dateInFuture) # ""
            THEN MgmtFail(m, e, "update",
                          validateEvent(adjustAvailableTickets(events[e], updated),
                                        venueExists, dateInFuture))
            ELSE MgmtGoto(m, e, "update", "save", adjustAvailableTickets(events[e], updated))

\* serviceImpl.CancelEvent up to its call of eventRepo.Update
CancelEvent(m) ==
    /\ mpc[m] = "idle"
    /\ \E e \in EventIDs, organizerID \in Users :
        IF ~Exists(e)
        THEN MgmtFail(m, e, "cancel", ErrEventNotFound)
        ELSE IF events[e].organizer # organizerID
        THEN MgmtFail(m, e, "cancel", ErrUnauthorizedAccess)
        ELSE IF events[e].status = StatusCancelled
        THEN MgmtFail(m, e, "cancel", ErrEventAlreadyCancelled)
        ELSE IF events[e].status = StatusCompleted
        THEN MgmtFail(m, e, "cancel", ErrCannotCancelCompleted)
        ELSE MgmtGoto(m, e, "cancel", "save", [events[e] EXCEPT !.status = StatusCancelled])

\* eventRepository.Update: gorm's Save writes every column of the struct, in
\* a statement of its own that waits for the row lock. When no row has the id,
\* Save inserts the struct.
EventRepositoryUpdate(m, dbErr) ==
    /\ mpc[m] = "save"
    /\ LET e == mreq[m].event
       IN /\ rowLock[e] = 0
          /\ IF dbErr \/ ~EventChecks(mEvent[m])
             THEN MgmtFail(m, e, mreq[m].kind, ErrEventUpdateFailed)
             ELSE /\ events' = [x \in DOMAIN events \cup {e} |->
                                  IF x = e THEN mEvent[m] ELSE events[x]]
                  /\ mpc' = [mpc EXCEPT ![m] = "done"]
                  /\ mresult' = [mresult EXCEPT ![m] = OK]
                  /\ mEvent' = [mEvent EXCEPT ![m] = NoEvent]
                  /\ mreq' = [mreq EXCEPT ![m] = [kind |-> mreq[m].kind, event |-> "none"]]
                  /\ UNCHANGED <<orders, rowLock, orderVars, cacheVars, statusVars, answerVars>>

\* serviceImpl.DeleteEvent up to its call of eventRepo.Delete
DeleteEvent(m) ==
    /\ mpc[m] = "idle"
    /\ \E e \in EventIDs, organizerID \in Users :
        IF ~Exists(e)
        THEN MgmtFail(m, e, "delete", ErrEventNotFound)
        ELSE IF events[e].organizer # organizerID
        THEN MgmtFail(m, e, "delete", ErrUnauthorizedAccess)
        ELSE IF events[e].available < events[e].total
        THEN MgmtFail(m, e, "delete", ErrCannotDeleteWithTickets)
        ELSE MgmtGoto(m, e, "delete", "delete", events[e])

\* eventRepository.Delete: DELETE FROM events WHERE id = e, in a statement of
\* its own. It waits for the row lock and for the transactions that inserted an
\* order of the event (the foreign key of orders holds a key-share lock on the
\* events row), and removes the event's orders with it (ON DELETE CASCADE).
\* Deleting no row is no error.
EventRepositoryDelete(m, dbErr) ==
    /\ mpc[m] = "delete"
    /\ LET e == mreq[m].event
       IN /\ rowLock[e] = 0
          /\ \A p \in Calls : txOrder[p] # {} => req[p].event # e
          /\ IF dbErr
             THEN MgmtFail(m, e, "delete", ErrEventDeletionFailed)
             ELSE /\ events' = [x \in DOMAIN events \ {e} |-> events[x]]
                  /\ orders' = {x \in orders : x.event_id # e}
                  /\ mpc' = [mpc EXCEPT ![m] = "done"]
                  /\ mresult' = [mresult EXCEPT ![m] = OK]
                  /\ mEvent' = [mEvent EXCEPT ![m] = NoEvent]
                  /\ mreq' = [mreq EXCEPT ![m] = [kind |-> "delete", event |-> "none"]]
                  /\ UNCHANGED <<rowLock, orderVars, cacheVars, statusVars, answerVars>>

\* The context passed to CreateOrder is cancelled while call p's transaction
\* is open. Every statement runs on tx.WithContext(ctx) and the transaction was
\* begun with that context: the statement the call is in or makes next (its
\* first read, the insert, the update, waiting for the row lock or not, or the
\* commit) returns the context's error and the transaction is rolled back.
CancelContext(p) ==
    \/ \E e \in EventIDs, q \in Quantities : q > 0 /\ CreateOrder(p, e, q, TRUE)
    \/ pc[p] \in {"validated", "inserted"} /\ Rollback(p, NewOrderCreationError)
    \/ pc[p] = "updated" /\ Rollback(p, Err(StorageError))

\* CreateOrder calls alone, on a store that does not fail
NextOrders ==
    \E p \in Calls :
        \/ \E e \in EventIDs, q \in Quantities : CreateOrder(p, e, q, FALSE)
        \/ CreateWithTx(p, FALSE)
        \/ UpdateEventTicketsWithTx(p, FALSE)
        \/ Commit(p, FALSE)

SpecOrders == Init /\ [][NextOrders]_vars

\* a status test that lets every status through
isValidStatusAny(status) == TRUE

isValidStatus(status) == status \in {StatusPending, StatusCompleted, StatusFailed}

\* OrderRepository.GetByID: whether a committed row has the id, and that row
HasOrder(id) == \E x \in orders : x.id = id
GetByID(id) == CHOOSE x \in orders : x.id = id

\* the order built anew from its id and the status, without its amount
WithStatusOnly(order, status) == [order EXCEPT !.status = status, !.total_amount = 0]

\* existingOrder.Status = status
WithStatus(order, status) == [order EXCEPT !.status = status]

\* a request on an order ends with an answer and nothing written
OrderDone(o, code) ==
    /\ opc' = [opc EXCEPT ![o] = "done"]
    /\ oresult' = [oresult EXCEPT ![o] = code]
    /\ oreq' = [oreq EXCEPT ![o] = NoOrderReq]
    /\ oOrder' = [oOrder EXCEPT ![o] = NoOrder]
    /\ UNCHANGED <<events, orders, rowLock, orderVars, mpc, mreq, mEvent, mresult,
                   cacheVars, answerVars>>

\* the request goes on to its write holding the Order struct order
OrderGoto(o, kind, to, id, status, order) ==
    /\ opc' = [opc EXCEPT ![o] = to]
    /\ oresult' = [oresult EXCEPT ![o] = "NONE"]
    /\ oreq' = [oreq EXCEPT ![o] = [kind |-> kind, id |-> id, status |-> status]]
    /\ oOrder' = [oOrder EXCEPT ![o] = order]
    /\ UNCHANGED <<events, orders, rowLock, orderVars, mpc, mreq, mEvent, mresult,
                   cacheVars, answerVars>>

\* OrderService.UpdateOrderStatus up to its call of repository.Update; a
\* request starts when the one before it has returned
UpdateOrderStatus(o, id, status, dbErr) ==
    /\ opc[o] \in {"idle", "done"}
    /\ IF ~isValidStatus(status) THEN OrderDone(o, ValidationErrorCode)
       ELSE IF dbErr THEN OrderDone(o, StorageError)
       ELSE IF ~HasOrder(id) THEN OrderDone(o, OrderNotFoundErrorCode)
       ELSE OrderGoto(o, "status", "save", id, status, WithStatus(GetByID(id), status))

\* OrderRepository.Update: gorm's Save writes every column of the struct
OrderRepositoryUpdate(o, dbErr) ==
    /\ opc[o] = "save"
    /\ IF dbErr \/ ~OrderChecks(oOrder[o])
       THEN OrderDone(o, StorageError)
       ELSE /\ orders' = {x \in orders : x.id # oOrder[o].id} \cup {oOrder[o]}
            /\ opc' = [opc EXCEPT ![o] = "done"]
            /\ oresult' = [oresult EXCEPT ![o] = OK]
            /\ oreq' = [oreq EXCEPT ![o] = NoOrderReq]
            /\ oOrder' = [oOrder EXCEPT ![o] = NoOrder]
            /\ UNCHANGED <<events, rowLock, orderVars, mpc, mreq, mEvent, mresult,
                           cacheVars, answerVars>>

\* OrderService.DeleteOrder up to its call of repository.Delete
DeleteOrder(o, id, dbErr) ==
    /\ opc[o] \in {"idle", "done"}
    /\ IF dbErr THEN OrderDone(o, StorageError)
       ELSE IF ~HasOrder(id) THEN OrderDone(o, OrderNotFoundErrorCode)
       ELSE OrderGoto(o, "delete", "delete", id, "NONE", NoOrder)

\* the DELETE made on the event of the order instead of its id
OrderRepositoryDeleteByEvent(o, dbErr) ==
    /\ opc[o] = "delete"
    /\ IF dbErr THEN OrderDone(o, StorageError)
       ELSE IF ~HasOrder(oreq[o].id) THEN OrderDone(o, OrderNotFoundErrorCode)
       ELSE /\ orders' = {x \in orders : x.event_id # GetByID(oreq[o].id).event_id}
            /\ opc' = [opc EXCEPT ![o] = "done"]
            /\ oresult' = [oresult EXCEPT ![o] = OK]
            /\ oreq' = [oreq EXCEPT ![o] = NoOrderReq]
            /\ oOrder' = [oOrder EXCEPT ![o] = NoOrder]
            /\ UNCHANGED <<events, rowLock, orderVars, mpc, mreq, mEvent, mresult,
                           cacheVars, answerVars>>

\* OrderRepository.Delete: no row deleted is OrderNotFound
OrderRepositoryDelete(o, dbErr) ==
    /\ opc[o] = "delete"
    /\ IF dbErr THEN OrderDone(o, StorageError)
       ELSE IF ~HasOrder(oreq[o].id) THEN OrderDone(o, OrderNotFoundErrorCode)
       ELSE /\ orders' = {x \in orders : x.id # oreq[o].id}
            /\ opc' = [opc EXCEPT ![o] = "done"]
            /\ oresult' = [oresult EXCEPT ![o] = OK]
            /\ oreq' = [oreq EXCEPT ![o] = NoOrderReq]
            /\ oOrder' = [oOrder EXCEPT ![o] = NoOrder]
            /\ UNCHANGED <<events, rowLock, orderVars, mpc, mreq, mEvent, mresult,
                           cacheVars, answerVars>>

\* an ErrorResponse
ErrorResponse(status, error) == [status |-> status, error |-> error, body |-> NoOrder]

\* OrderHandler.CreateOrder up to the end of the first statement of the
\* service's transaction: binding the body (quantity is required, min=1),
\* taking the caller from the context, and calling OrderService.CreateOrder
OrderHandlerCreateOrder(p, e, q, authenticated, dbErr) ==
    IF q < 1 \/ ~authenticated
    THEN /\ pc[p] = "idle"
         /\ \A p2 \in Calls : p2 < p => pc[p2] # "idle"
         /\ pc' = [pc EXCEPT ![p] = "done"]
         /\ http' = [http EXCEPT ![p] = IF q < 1
                                        THEN ErrorResponse(400, "validation_error")
                                        ELSE ErrorResponse(401, "unauthorized")]
         /\ UNCHANGED <<events, orders, rowLock, req, eventInfo, txOrder, txTickets,
                        result, applied, mpc, mreq, mEvent, mresult, cacheVars,
                        statusVars, rresult>>
    ELSE CreateOrder(p, e, q, dbErr)

\* OrderHandler.CreateOrder: the response to what the service returned
CreateOrderResponse(p) ==
    LET code == result[p].code
    IN IF code = OK
       THEN [status |-> 201, error |-> "NONE", body |-> GetByID(p)]
       ELSE IF code = InvalidQuantityErrorCode THEN ErrorResponse(400, code)
       ELSE IF code = EventNotFoundErrorCode THEN ErrorResponse(404, code)
       ELSE IF code = EventNotActiveErrorCode THEN ErrorResponse(400, code)
       ELSE IF code = InsufficientTicketsErrorCode THEN ErrorResponse(400, code)
       ELSE IF code = OrderCreationErrorCode THEN ErrorResponse(500, code)
       ELSE ErrorResponse(500, "creation_error")

\* OrderHandler.CreateOrder from the return of the service to its c.JSON
OrderHandlerRespond(p) ==
    /\ pc[p] = "done"
    /\ result[p] # NoResult
    /\ http[p] = NoResponse
    /\ http' = [http EXCEPT ![p] = CreateOrderResponse(p)]
    /\ UNCHANGED <<events, orders, rowLock, orderVars, mpc, mreq, mEvent, mresult,
                   cacheVars, statusVars, rresult>>

\* what a read answers
Answer(op, id, user, event, code, rows) ==
    [op |-> op, id |-> id, user |-> user, event |-> event, code |-> code, rows |-> rows]

\* OrderService.GetOrderByID: OrderRepository.GetByID, First on id
GetOrderByID(id, dbErr) ==
    /\ rresult' =
         IF dbErr THEN Answer("GetOrderByID", id, "none", "none", StorageError, {})
         ELSE IF ~HasOrder(id)
         THEN Answer("GetOrderByID", id, "none", "none", OrderNotFoundErrorCode, {})
         ELSE Answer("GetOrderByID", id, "none", "none", OK, {GetByID(id)})
    /\ UNCHANGED <<events, orders, rowLock, orderVars, mpc, mreq, mEvent, mresult,
                   cacheVars, statusVars, http>>

\* OrderService.GetOrdersByUserID: OrderRepository.GetByUserID, Find on
\* user_id; Find with no row is no error
GetOrdersByUserID(userID, dbErr) ==
    /\ rresult' =
         IF dbErr THEN Answer("GetOrdersByUserID", 0, userID, "none", StorageError, {})
         ELSE Answer("GetOrdersByUserID", 0, userID, "none", OK,
                     {x \in orders : x.user_id = userID})
    /\ UNCHANGED <<events, orders, rowLock, orderVars, mpc, mreq, mEvent, mresult,
                   cacheVars, statusVars, http>>

\* OrderService.GetOrdersByEventID: OrderRepository.GetByEventID, Find on
\* event_id; Find with no row is no error
GetOrdersByEventID(eventID, dbErr) ==
    /\ rresult' =
         IF dbErr THEN Answer("GetOrdersByEventID", 0, "none", eventID, StorageError, {})
         ELSE Answer("GetOrdersByEventID", 0, "none", eventID, OK,
                     {x \in orders : x.event_id = eventID})
    /\ UNCHANGED <<events, orders, rowLock, orderVars, mpc, mreq, mEvent, mresult,
                   cacheVars, statusVars, http>>

\* CachedEventRepository.GetByID on a miss: it reads the row from the store
\* and puts it in the cache. On a hit it returns the cached Event and changes
\* nothing. Nothing CreateOrder does invalidates the entry.
CachedGetByID(e) ==
    /\ cache[e] = NoEvent
    /\ Exists(e)
    /\ cache' = [cache EXCEPT ![e] = events[e]]
    /\ UNCHANGED <<events, orders, rowLock, orderVars, mpc, mreq, mEvent, mresult,
                   statusVars, answerVars>>

\* CreateOrder calls next to readers that go through the cache
NextCache ==
    \/ NextOrders
    \/ \E e \in EventIDs : CachedGetByID(e)

SpecCache == Init /\ [][NextCache]_vars

\* CreateOrder calls on two events
SpecTwoEvents == InitTwoEvents /\ [][NextOrders]_vars

\* CreateOrder calls next to requests on the orders, on a store that may fail
\* the first read of UpdateOrderStatus
NextStatus ==
    \/ NextOrders
    \/ \E o \in OrderMgmt :
        \/ \E id \in OrderIDs, status \in OrderStatuses, dbErr \in BOOLEAN :
                UpdateOrderStatus(o, id, status, dbErr)
        \/ OrderRepositoryUpdate(o, FALSE)
        \/ \E id \in OrderIDs : DeleteOrder(o, id, FALSE)
        \/ OrderRepositoryDelete(o, FALSE)

SpecStatus == InitActive /\ [][NextStatus]_vars

\* CreateOrder calls whose contexts may be cancelled
NextCancel ==
    \/ NextOrders
    \/ \E p \in Calls : CancelContext(p)

SpecCancel == Init /\ [][NextCancel]_vars

\* CreateOrder calls next to reads of the orders, on a store that may fail a read
NextReads ==
    \/ NextOrders
    \/ \E dbErr \in BOOLEAN :
        \/ \E id \in OrderIDs : GetOrderByID(id, dbErr)
        \/ \E userID \in Users : GetOrdersByUserID(userID, dbErr)
        \/ \E eventID \in EventIDs : GetOrdersByEventID(eventID, dbErr)

SpecReads == InitActive /\ [][NextReads]_vars

\* CreateOrder calls made through the HTTP handler, on a store whose statements
\* may fail
NextHttp ==
    \E p \in Calls :
        \/ \E e \in EventIDs, q \in Quantities, authenticated \in BOOLEAN, dbErr \in BOOLEAN :
                OrderHandlerCreateOrder(p, e, q, authenticated, dbErr)
        \/ \E dbErr \in BOOLEAN : CreateWithTx(p, dbErr)
        \/ \E dbErr \in BOOLEAN : UpdateEventTicketsWithTx(p, dbErr)
        \/ \E dbErr \in BOOLEAN : Commit(p, dbErr)
        \/ OrderHandlerRespond(p)

SpecHttp == Init /\ [][NextHttp]_vars

\* CreateOrder calls next to two event-management requests that update or
\* cancel, on a store that does not fail
NextEvents ==
    \/ NextOrders
    \/ \E m \in Mgmt :
        \/ UpdateEventHandler(m)
        \/ UpdateEvent(m)
        \/ CancelEvent(m)
        \/ EventRepositoryUpdate(m, FALSE)

SpecEvents == InitActive /\ [][NextEvents]_vars

\* CreateOrder calls next to one request that updates or cancels an event
\* which may be in any status, on a store that does not fail
NextUpdate ==
    \/ NextOrders
    \/ \E m \in MgmtAlone :
        \/ UpdateEventHandler(m)
        \/ UpdateEvent(m)
        \/ CancelEvent(m)
        \/ EventRepositoryUpdate(m, FALSE)

SpecUpdate == InitAnyStatus /\ [][NextUpdate]_vars

\* CreateOrder calls next to a DeleteEvent request, on a store that does not fail
NextDelete ==
    \/ NextOrders
    \/ \E m \in MgmtAlone :
        \/ DeleteEvent(m)
        \/ EventRepositoryDelete(m, FALSE)

SpecDelete == InitActive /\ [][NextDelete]_vars

\* everything: CreateOrder calls, an event-management request, and a store
\* whose statements may fail
Next ==
    \/ \E p \in Calls :
        \/ \E e \in EventIDs, q \in Quantities, dbErr \in BOOLEAN : CreateOrder(p, e, q, dbErr)
        \/ \E dbErr \in BOOLEAN : CreateWithTx(p, dbErr)
        \/ \E dbErr \in BOOLEAN : UpdateEventTicketsWithTx(p, dbErr)
        \/ \E dbErr \in BOOLEAN : Commit(p, dbErr)
    \/ \E m \in MgmtAlone :
        \/ UpdateEventHandler(m)
        \/ UpdateEvent(m)
        \/ CancelEvent(m)
        \/ \E dbErr \in BOOLEAN : EventRepositoryUpdate(m, dbErr)

Spec == Init /\ [][Next]_vars
\* ---- properties ----
OrderVisible(p) == \E o \in orders : o.id = p
OrderOf(p) == CHOOSE o \in orders : o.id = p
Succeeded(p) == pc[p] = "done" /\ result[p].code = OK
Refused(p) == pc[p] = "done" /\ result[p].code = InsufficientTicketsErrorCode
AllDone == \A p \in Calls : pc[p] = "done"
\* the step in which call p returns
Returns(p) == pc[p] # "done" /\ pc'[p] = "done"
\* the step in which call p's transaction commits
Commits(p) == p \in applied' /\ p \notin applied

RECURSIVE SumQuantity(_)
SumQuantity(os) ==
    IF os = {} THEN 0
    ELSE LET o == CHOOSE x \in os : TRUE IN o.quantity + SumQuantity(os \ {o})

\* tickets of event e held by committed orders that are not FAILED
Sold(e) == SumQuantity({o \in orders : o.event_id = e /\ o.status # StatusFailed})

\* the quantity a finished call asked for
RequestedBy(p) == IF result[p].code = OK THEN OrderOf(p).quantity ELSE result[p].requested

\* every call has finished, each was a request for one ticket of e, and each
\* either succeeded or was refused for lack of tickets
OneTicketCalls(e) ==
    /\ AllDone
    /\ \A p \in Calls :
        \/ Succeeded(p) /\ OrderOf(p).event_id = e /\ OrderOf(p).quantity = 1
        \/ Refused(p) /\ result[p].requested = 1

\* C1: when more calls than the event has tickets each ask for one ticket of
\* it, exactly as many succeed as there were tickets, the others are refused
\* with InsufficientTickets, and available_tickets ends at 0.
NoOversell ==
    \A e \in DOMAIN events :
        (OneTicketCalls(e) /\ MaxCalls > events[e].total) =>
            /\ Cardinality({p \in Calls : Succeeded(p)}) = events[e].total
            /\ Cardinality({p \in Calls : Refused(p)}) = MaxCalls - events[e].total
            /\ events[e].available = 0

\* C2: in every committed state the quantities of an event's orders that are
\* not FAILED sum to at most total_tickets, and available_tickets is
\* total_tickets minus that sum.
TicketsConserved ==
    \A e \in DOMAIN events :
        /\ Sold(e) <= events[e].total
        /\ events[e].available = events[e].total - Sold(e)

\* the orders in which the calls of S can run one after another
Orderings(S) ==
    {f \in [1..Cardinality(S) -> S] :
        \A i, j \in 1..Cardinality(S) : i # j => f[i] # f[j]}

\* running the calls of seq one after another from avail tickets gives each
\* call the result it has and ends with final tickets
RECURSIVE SerialRun(_, _, _)
SerialRun(seq, avail, final) ==
    IF seq = <<>> THEN avail = final
    ELSE LET p == Head(seq)
             q == RequestedBy(p)
         IN IF avail >= q
            THEN result[p].code = OK /\ SerialRun(Tail(seq), avail - q, final)
            ELSE result[p].code = InsufficientTicketsErrorCode
                 /\ SerialRun(Tail(seq), avail, final)

\* C3: the successes, the refusals and the final available_tickets of
\* concurrent calls on one event are those of the same calls run one at a time
\* in some order (so two calls for 2 of 3 tickets never both succeed).
Serializable ==
    \A e \in DOMAIN events :
        AllDone =>
            \E f \in Orderings({p \in Calls : Succeeded(p) \/ Refused(p)}) :
                SerialRun(f, events[e].total, events[e].available)

\* C4: a call's order row becomes visible exactly in the step in which its
\* write of available_tickets becomes visible, and that step leaves
\* available_tickets at the value the transaction wrote.
AtomicVisibility ==
    [][\A p \in Calls :
        /\ (OrderVisible(p)' /\ ~OrderVisible(p)) <=> Commits(p)
        /\ Commits(p) =>
            events'[req[p].event].available = eventInfo[p].available - req[p].quantity]_vars

\* a call's order and its decrement are both committed
OrderAndDecrementVisible ==
    \E p \in applied :
        /\ OrderVisible(p)
        /\ events[OrderOf(p).event_id].available < events[OrderOf(p).event_id].total

\* C5: a call that returns an error leaves the committed orders and events as
\* they are and has no order and no event write committed; a call whose insert
\* succeeded and which returns without committing returns OrderCreationFailed
\* and its insert is dropped; a call returns success only with both committed.
ErrorLeavesNoWrite ==
    [][\A p \in Calls :
        /\ (Returns(p) /\ result'[p].code # OK) =>
            /\ orders' = orders
            /\ events' = events
            /\ ~OrderVisible(p)'
            /\ p \notin applied'
        /\ (Returns(p) /\ pc[p] = "inserted") =>
            /\ result'[p].code = OrderCreationErrorCode
            /\ txOrder[p] # {}
            /\ txOrder'[p] = {}
        /\ (Returns(p) /\ result'[p].code = OK) =>
            /\ OrderVisible(p)'
            /\ Commits(p)]_vars

\* a call has failed with OrderCreationFailed next to one that succeeded
CreationFailedNoOrder ==
    \E p \in Calls :
        /\ pc[p] = "done"
        /\ result[p].code = OrderCreationErrorCode
        /\ ~OrderVisible(p)
        /\ applied # {}

\* the step commits a successful CreateOrder on event e together with its order
OrderCommit(e) ==
    \E p \in Calls :
        /\ Returns(p)
        /\ result'[p].code = OK
        /\ req[p].event = e
        /\ OrderVisible(p)' /\ ~OrderVisible(p)

\* the step is the row write that ends a successful UpdateEvent or CancelEvent on e
EventSave(e) ==
    \E m \in Mgmt :
        /\ mpc[m] = "save" /\ mpc'[m] = "done"
        /\ mresult'[m] = OK
        /\ mreq[m].event = e
        /\ events'[e] = mEvent[m]

TicketBounds ==
    \A e \in DOMAIN events :
        /\ 0 <= events[e].available
        /\ events[e].available <= events[e].total

\* an order is committed on an event whose total_tickets an UpdateEvent lowered
OrderOnShrunkEvent ==
    \E m \in Mgmt, e \in DOMAIN events :
        /\ mpc[m] = "done" /\ mresult[m] = OK /\ mreq[m].kind = "update"
        /\ events[e].total < MaxTickets
        /\ \E o \in orders : o.event_id = e

\* C8: the step in which a call returns success adds exactly one order, PENDING
\* with the call's buyer, event and quantity, changes no other order, and
\* leaves the committed available_tickets lower by the quantity than it was
\* just before.
SuccessPostcondition ==
    [][\A p \in Calls :
        (Returns(p) /\ result'[p].code = OK) =>
            /\ \E o \in orders' \ orders :
                /\ orders' = orders \cup {o}
                /\ o.user_id = req[p].user
                /\ o.event_id = req[p].event
                /\ o.quantity = req[p].quantity
                /\ o.status = StatusPending
            /\ events'[req[p].event].available
                 = events[req[p].event].available - req[p].quantity]_vars

\* C9: a call for more tickets than an existing ACTIVE event has available,
\* when its read succeeds, returns InsufficientTickets carrying the quantity
\* asked for and the available count, and writes nothing; and no call returns
\* InsufficientTickets otherwise.
InsufficientTicketsRefused ==
    [][\A p \in Calls :
        /\ \A e \in EventIDs, q \in Quantities :
            (/\ CreateOrder(p, e, q, FALSE)
             /\ Exists(e)
             /\ events[e].status = StatusActive
             /\ events[e].available < q) =>
                /\ pc'[p] = "done"
                /\ result'[p].code = InsufficientTicketsErrorCode
                /\ result'[p].requested = q
                /\ result'[p].available = events[e].available
                /\ ~OrderVisible(p)'
                /\ txOrder'[p] = {}
                /\ orders' = orders
                /\ events' = events
        /\ (Returns(p) /\ result'[p].code = InsufficientTicketsErrorCode) =>
            \E e \in DOMAIN events :
                /\ events[e].available < result'[p].requested
                /\ result'[p].available = events[e].available]_vars

\* a call was refused for lack of tickets and has no order
RefusedNoOrder ==
    \E p \in Calls :
        /\ Refused(p)
        /\ result[p].available < result[p].requested
        /\ ~OrderVisible(p)

\* C10: a call with a positive quantity that reads an event whose status is
\* CANCELLED or COMPLETED returns EventNotActive carrying that status,
\* whatever available_tickets is, and writes nothing.
InactiveEventRefused ==
    [][\A p \in Calls, e \in EventIDs, q \in Quantities :
        (/\ CreateOrder(p, e, q, FALSE)
         /\ q > 0
         /\ Exists(e)
         /\ events[e].status \in {StatusCancelled, StatusCompleted}) =>
            /\ pc'[p] = "done"
            /\ result'[p].code = EventNotActiveErrorCode
            /\ result'[p].status = events[e].status
            /\ ~OrderVisible(p)'
            /\ txOrder'[p] = {}
            /\ orders' = orders
            /\ events' = events]_vars

\* a call on a cancelled event with no ticket left returned EventNotActive
CancelledSoldOutRefused ==
    \E p \in Calls, e \in DOMAIN events :
        /\ pc[p] = "done"
        /\ result[p].code = EventNotActiveErrorCode
        /\ result[p].status = StatusCancelled
        /\ events[e].status = StatusCancelled
        /\ events[e].available = 0

\* C11: a call with a positive quantity for an event id that has no row, when
\* its read succeeds, returns EventNotFound, creates no order and changes no
\* event.
MissingEventRefused ==
    [][\A p \in Calls, e \in EventIDs, q \in Quantities :
        (CreateOrder(p, e, q, FALSE) /\ q > 0 /\ ~Exists(e)) =>
            /\ pc'[p] = "done"
            /\ result'[p].code = EventNotFoundErrorCode
            /\ ~OrderVisible(p)'
            /\ txOrder'[p] = {}
            /\ orders' = orders
            /\ events' = events]_vars

\* a call returned EventNotFound and has no order
NotFoundNoOrder ==
    \E p \in Calls :
        /\ pc[p] = "done"
        /\ result[p].code = EventNotFoundErrorCode
        /\ ~OrderVisible(p)

\* C12: a call with a quantity <= 0 returns InvalidQuantity whatever event it
\* names and whether or not the store works, reads nothing, opens no
\* transaction and writes nothing; every such call returns the same.
InvalidQuantityRefused ==
    [][\A p \in Calls, e \in EventIDs, q \in Quantities, dbErr \in BOOLEAN :
        (CreateOrder(p, e, q, dbErr) /\ q <= 0) =>
            /\ pc'[p] = "done"
            /\ result'[p] = Err(InvalidQuantityErrorCode)
            /\ UNCHANGED <<events, orders, rowLock, req, eventInfo, txOrder, txTickets,
                           applied>>]_vars

\* every call was made with a quantity <= 0 and was refused
AllInvalidQuantity ==
    \A p \in Calls : pc[p] = "done" /\ result[p].code = InvalidQuantityErrorCode

\* the step is a statement of call p's transaction, or its commit, failing in the store
StorageFailure(p) ==
    \/ \E e \in EventIDs, q \in Quantities : q > 0 /\ CreateOrder(p, e, q, TRUE)
    \/ CreateWithTx(p, TRUE)
    \/ UpdateEventTicketsWithTx(p, TRUE)
    \/ Commit(p, TRUE)

\* C13: a call whose event read, order insert, available_tickets update or
\* commit fails in the store returns OrderCreationFailed.
StorageFailuresWrapped ==
    [][\A p \in Calls :
        StorageFailure(p) => result'[p].code = OrderCreationErrorCode]_vars

\* how many times call p has run the function it passes to Transaction
Attempts(p) ==
    IF pc[p] = "idle" \/ (pc[p] = "done" /\ result[p].code = InvalidQuantityErrorCode)
    THEN 0 ELSE 1

\* C14: a call one of whose statements fails with a conflict error of the
\* store runs its transactional body again, and returns an error only after
\* more than one run.
ConflictRetried ==
    [][\A p \in Calls : StorageFailure(p) => Attempts(p)' > 1]_vars

\* no open transaction of another call has updated the row of the event call p is on
NoOtherHolder(p) ==
    \A p2 \in Calls \ {p} : pc[p2] # "updated" \/ req[p2].event # req[p].event

\* C15: the step in which a call's context is cancelled while its transaction
\* is open ends the call with an error, leaves the committed orders and events
\* as they are and releases the row lock; a call that returned an error never
\* has an order or an event write committed; and a call waiting to update a row
\* can go on unless an open transaction has updated that row.
CancelAborts ==
    /\ [][\A p \in Calls :
            CancelContext(p) =>
                /\ pc'[p] = "done"
                /\ result'[p].code \notin {OK, "NONE"}
                /\ orders' = orders
                /\ events' = events
                /\ txOrder'[p] = {}
                /\ \A e \in EventIDs : rowLock'[e] # p]_vars
    /\ [](\A p \in Calls :
            /\ (pc[p] = "done" /\ result[p].code # OK) =>
                    ~OrderVisible(p) /\ p \notin applied
            /\ (pc[p] = "inserted" /\ NoOtherHolder(p)) =>
                    ENABLED UpdateEventTicketsWithTx(p, FALSE))

\* a call was cancelled before its commit, and another call has committed
CancelledOtherCommitted ==
    \E p \in Calls :
        /\ pc[p] = "done"
        /\ result[p].code = StorageError
        /\ ~OrderVisible(p)
        /\ applied # {}

\* C16: what a call with a positive quantity on an existing event does after
\* its read is decided by the committed row of the store alone, whatever the
\* cache holds: it goes on exactly when that row is ACTIVE with enough
\* tickets, carrying that row, and is refused with that row's status or
\* available count otherwise.
StoreDecides ==
    [][\A p \in Calls, e \in EventIDs, q \in Quantities :
        (CreateOrder(p, e, q, FALSE) /\ q > 0 /\ Exists(e)) =>
            /\ (pc'[p] = "validated") <=>
                    (events[e].status = StatusActive /\ events[e].available >= q)
            /\ (pc'[p] = "validated") => eventInfo'[p] = events[e]
            /\ (pc'[p] = "done") =>
                    result'[p] = IF events[e].status # StatusActive
                                 THEN NewEventNotActiveError(e, events[e].status)
                                 ELSE NewInsufficientTicketsError(q, events[e].available)]_vars

\* a call was refused on the store's count while the cache held a count that
\* would have let it through
StaleCacheIgnored ==
    \E p \in Calls, e \in DOMAIN events :
        /\ Refused(p)
        /\ events[e].available < result[p].requested
        /\ cache[e].status = StatusActive
        /\ cache[e].available >= result[p].requested

TxOpen(p) == pc[p] \in {"validated", "inserted", "updated"}

\* every other call whose transaction is open is on another event than call p
OthersOnOtherEvents(p) ==
    \A p2 \in Calls \ {p} : TxOpen(p2) => req[p2].event # req[p].event

\* C17: a step of a call on one event leaves every other event's row, row
\* lock and orders as they are; and a call whose transaction is open can take
\* its next step whenever every other open transaction is on another event.
EventsIndependent ==
    /\ [][\A p \in Calls :
            pc'[p] # pc[p] =>
                LET a == IF pc[p] = "idle" THEN req'[p].event ELSE req[p].event
                IN \A b \in DOMAIN events \ {a} :
                    /\ b \in DOMAIN events' /\ events'[b] = events[b]
                    /\ rowLock'[b] = rowLock[b]
                    /\ {o \in orders' : o.event_id = b} = {o \in orders : o.event_id = b}]_vars
    /\ [](\A p \in Calls :
            OthersOnOtherEvents(p) =>
                /\ pc[p] = "validated" => ENABLED CreateWithTx(p, FALSE)
                /\ pc[p] = "inserted" => ENABLED UpdateEventTicketsWithTx(p, FALSE)
                /\ pc[p] = "updated" => ENABLED Commit(p, FALSE))

\* a call on one event has committed while a transaction that updated another
\* event's row is open
CommittedBesideOpenTx ==
    \E p \in applied, p2 \in Calls :
        /\ pc[p2] = "updated"
        /\ OrderVisible(p)
        /\ OrderOf(p).event_id # req[p2].event
        /\ events[req[p2].event].available = events[req[p2].event].total

\* C18: an order that stays in the store keeps its id, buyer, event, quantity,
\* total_amount and created_at in every step, whatever becomes of its status;
\* and a step of a CreateOrder call changes no order the store already has.
OrderFieldsImmutable ==
    [][/\ \A x \in orders, y \in orders' :
            y.id = x.id => [y EXCEPT !.status = x.status] = x
       /\ \A p \in Calls : pc'[p] # pc[p] => orders \subseteq orders']_vars

\* an order's status was changed, its amount is still the one it was created
\* with, and another order has been created
StatusChangedOrderKept ==
    \E x \in orders, y \in orders :
        /\ x.id # y.id
        /\ x.status = StatusCompleted
        /\ x.total_amount = x.quantity * events[x.event_id].price

\* the statuses an order may have
AllowedStatuses == {"PENDING", "COMPLETED", "FAILED"}

\* C20: UpdateOrderStatus with a status that is none of PENDING, COMPLETED,
\* FAILED returns ValidationError whether or not the store works and changes
\* nothing; UpdateOrderStatus with a valid status and DeleteOrder on an id no
\* order has return OrderNotFound and change nothing; and the write of an
\* UpdateOrderStatus changes the status of the order it names to the status
\* asked for, and nothing else.
OrderStatusContract ==
    [][\A o \in OrderMgmt :
        (opc'[o] # opc[o] \/ oresult'[o] # oresult[o]) =>
          \A id \in OrderIDs :
            /\ \A status \in OrderStatuses \ AllowedStatuses, dbErr \in BOOLEAN :
                UpdateOrderStatus(o, id, status, dbErr) =>
                    /\ opc'[o] = "done"
                    /\ oresult'[o] = ValidationErrorCode
                    /\ UNCHANGED <<events, orders, rowLock>>
            /\ \A status \in AllowedStatuses :
                (~HasOrder(id) /\ UpdateOrderStatus(o, id, status, FALSE)) =>
                    /\ opc'[o] = "done"
                    /\ oresult'[o] = OrderNotFoundErrorCode
                    /\ UNCHANGED <<events, orders, rowLock>>
            /\ (~HasOrder(id) /\ DeleteOrder(o, id, FALSE)) =>
                    /\ opc'[o] = "done"
                    /\ oresult'[o] = OrderNotFoundErrorCode
                    /\ UNCHANGED <<events, orders, rowLock>>
            /\ (opc[o] = "save" /\ oreq[o].id = id /\ OrderRepositoryUpdate(o, FALSE)) =>
                    /\ HasOrder(id)
                    /\ oresult'[o] = OK
                    /\ oreq[o].status \in AllowedStatuses
                    /\ orders' = (orders \ {GetByID(id)})
                                    \cup {[GetByID(id) EXCEPT !.status = oreq[o].status]}
                    /\ UNCHANGED <<events, rowLock>>]_vars

\* an UpdateOrderStatus has set an order FAILED
StatusSetFailed ==
    \E o \in OrderMgmt, x \in orders :
        /\ opc[o] = "done"
        /\ oresult[o] = OK
        /\ x.status = StatusFailed

\* no UpdateEvent has written the events table
NoEventUpdated == \A m \in Mgmt : ~(mpc[m] = "done" /\ mresult[m] = OK /\ mreq[m].kind = "update")

ReadsAnswerOrNotFound ==
    [][/\ \A id \in OrderIDs :
            GetOrderByID(id, FALSE) =>
                /\ rresult'.code = IF HasOrder(id) THEN OK ELSE OrderNotFoundErrorCode
                /\ rresult'.rows = {x \in orders : x.id = id}
                /\ UNCHANGED <<events, orders>>
       /\ \A userID \in Users :
            GetOrdersByUserID(userID, FALSE) =>
                /\ rresult'.code = IF \E x \in orders : x.user_id = userID
                                   THEN OK ELSE OrderNotFoundErrorCode
                /\ rresult'.rows = {x \in orders : x.user_id = userID}
                /\ UNCHANGED <<events, orders>>
       /\ \A eventID \in EventIDs :
            GetOrdersByEventID(eventID, FALSE) =>
                /\ rresult'.code = IF \E x \in orders : x.event_id = eventID
                                   THEN OK ELSE OrderNotFoundErrorCode
                /\ rresult'.rows = {x \in orders : x.event_id = eventID}
                /\ UNCHANGED <<events, orders>>]_vars

\* the machine-readable code of the error kind of what call p returned
KindCode(p) ==
    IF result[p].code = StorageError THEN OrderCreationErrorCode ELSE result[p].code

\* C22: the response to a CreateOrder request is 201 with the order when the
\* service succeeded, 400 when the request did not pass validation or the
\* service returned InvalidQuantity, 404 for EventNotFound, 400 or 409 for
\* InsufficientTickets and EventNotActive, and 500 for a storage failure; and
\* its error field is the code of the kind of the error the service returned.
HandlerMapsErrorKinds ==
    \A p \in Calls :
        (http[p] # NoResponse /\ http[p].error # "unauthorized") =>
            /\ result[p] = NoResult => http[p].status = 400
            /\ result[p].code = OK =>
                    http[p].status = 201 /\ http[p].body \in orders /\ http[p].body.id = p
            /\ result[p].code = InvalidQuantityErrorCode => http[p].status = 400
            /\ result[p].code = EventNotFoundErrorCode => http[p].status = 404
            /\ result[p].code \in {EventNotActiveErrorCode, InsufficientTicketsErrorCode} =>
                    http[p].status \in {400, 409}
            /\ result[p].code \in {OrderCreationErrorCode, StorageError} =>
                    http[p].status = 500
            /\ result[p].code \notin {OK, "NONE"} => http[p].error = KindCode(p)

OrderReleased(o) ==
    /\ oresult'[o] = OK
    /\ \/ opc[o] = "save" /\ oreq[o].status = StatusFailed
       \/ opc[o] = "delete"

\* C24: when available_tickets = total_tickets - (quantities of the event's
\* orders that are not FAILED) holds for every event, it still holds after a
\* successful UpdateOrderStatus to FAILED or DeleteOrder of a created order.
ReleaseKeepsTicketsConserved ==
    [][\A o \in OrderMgmt :
        (OrderReleased(o) /\ TicketsConserved) => TicketsConserved']_vars

\* C25: no step of a CreateOrder call leaves an event's committed
\* available_tickets higher than it was.
AvailableNeverIncreases ==
    [][\A e \in DOMAIN events :
        e \in DOMAIN events' /\ events'[e].available <= events[e].available]_vars

\* C26: the row write that ends a successful UpdateEvent leaves
\* total_tickets - available_tickets of the event as it was.
UpdatePreservesSold ==
    [][\A m \in Mgmt, e \in DOMAIN events :
        (/\ mpc[m] = "save"
         /\ mreq[m].kind = "update"
         /\ mreq[m].event = e
         /\ mresult'[m] = OK) =>
            events'[e].total - events'[e].available
                = events[e].total - events[e].available]_vars

\* C27: an event whose committed status is CANCELLED never has the committed
\* status ACTIVE in the next state.
CancelledIsAbsorbing ==
    [][\A e \in DOMAIN events :
        (events[e].status = StatusCancelled /\ e \in DOMAIN events') =>
            events'[e].status # StatusActive]_vars

\* C28: the step in which a call's transaction commits finds the committed
\* status of the call's event ACTIVE.
CommitsOnActiveEvent ==
    [][\A p \in Calls :
        Commits(p) => events[req[p].event].status = StatusActive]_vars

\* C29: when serviceImpl.UpdateEvent reads an event whose stored status is
\* CANCELLED it returns ErrCannotUpdateCancelled, when the status is COMPLETED
\* it returns ErrCannotUpdateCompleted, and when the event is ACTIVE and the
\* request's total_tickets is below total_tickets - available_tickets of the
\* stored row it returns InvalidTicketReduction; in each case the request ends
\* there and the events and orders are left as they are.
UpdateRefused ==
    [][\A m \in Mgmt :
        (mpc[m] = "service" /\ mpc'[m] # "service" /\ Exists(mreq[m].event)) =>
            LET row == events[mreq[m].event]
                refusedWith(code) ==
                    /\ mpc'[m] = "done"
                    /\ mresult'[m] = code
                    /\ events' = events
                    /\ orders' = orders
            IN /\ row.status = StatusCancelled => refusedWith(ErrCannotUpdateCancelled)
               /\ row.status = StatusCompleted => refusedWith(ErrCannotUpdateCompleted)
               /\ (row.status = StatusActive
                    /\ mEvent[m].total < row.total - row.available) =>
                        refusedWith(ErrInvalidTicketReduction)]_vars

\* an UpdateEvent to fewer tickets than the orders hold was refused, and the
\* event still has the tickets it had
ReductionRefused ==
    \E m \in Mgmt, e \in DOMAIN events :
        /\ mpc[m] = "done"
        /\ mresult[m] = ErrInvalidTicketReduction
        /\ orders # {}
        /\ events[e].total = MaxTickets
        /\ events[e].available < events[e].total

\* C30: a step removes an event only when no ticket of it is sold
\* (available_tickets = total_tickets in the committed row); and a DeleteEvent
\* that returns UnauthorizedAccess or ErrCannotDeleteWithTickets leaves the
\* events as they are.
DeleteOnlyUnsold ==
    [][/\ \A e \in DOMAIN events :
            e \notin DOMAIN events' => events[e].available = events[e].total
       /\ \A m \in Mgmt :
            (/\ mpc[m] # "done" /\ mpc'[m] = "done"
             /\ mresult'[m] \in {ErrUnauthorizedAccess, ErrCannotDeleteWithTickets}) =>
                events' = events]_vars
====
